---------------------------- MODULE Spec2Model ----------------------------
(***************************************************************************)
(* Model of OdometryProcessor (src/src/odometry.cpp with its header        *)
(* src/include/encoder_to_odom/odometry.h): two encoder readings per       *)
(* motor, the stabilization countdown, and the per-frame pipeline          *)
(* degrees -> meters -> frame distance -> theta -> position.               *)
(*                                                                         *)
(* Number representation.  The code computes in float; the model computes  *)
(* in fixed point on integers:                                             *)
(*   degrees                       whole degrees                           *)
(*   meters (distances, x, y)      millimetres                             *)
(*   radians (theta), sin, cos     1/Scale (Scale = 10^4)                  *)
(* A float division or product is the exact rational result rounded to the *)
(* nearest unit (RoundDiv).  NaN is a value of its own: asinf returns it    *)
(* outside [-1, 1], every arithmetic operation propagates it and every     *)
(* comparison with it is false, as in IEEE 754.                            *)
(***************************************************************************)
EXTENDS Integers, FiniteSets, Sequences, TLC

\* enum class Motor
Motor == {"LEFT", "RIGHT"}

\* Encoder angle readings a caller supplies (degrees).
Readings == {0, 120, 240}

\* Constructor arguments a caller supplies: millimetres, degrees, flags.
Geometries ==
    { [wheelCircumference |-> 1200, wheelBase |-> 400, gearRatio |-> 2,
       rolloverThreshold |-> 120, rightIncrease |-> TRUE, leftIncrease |-> FALSE],
      [wheelCircumference |-> 1200, wheelBase |-> 800, gearRatio |-> 2,
       rolloverThreshold |-> 150, rightIncrease |-> FALSE, leftIncrease |-> TRUE] }

\* Longest run of processData calls explored after construction or reset.
MaxCalls == 5

Scale == 10 ^ 4

\* #define PI 3.14159265.  In the build's arithmetic 2 * asinf(1.0f) is
\* 3.14159274 > PI; the fixed-point values of PI and asinf(1) keep that order.
PI == 31415

\* #define THREE_SIXTY 360.0
THREE_SIXTY == 360

\* int stablizationAmount = 3
StablizationAmountInit == 3

VARIABLES
    wheelCircumference, wheelBase, gearRatio, rolloverThreshold,
    rightIncrease, leftIncrease,
    currentPosition, distance,
    currentReadings, lastReadings,
    totalDegreesTraveled, metersTraveledInFrame, totalMetersTraveled,
    stablizationAmount,
    deltaDegrees,      \* the local deltaDegrees of calculateDegreesTraveledInFrame
    processCalls,      \* processData calls since construction or reset
    framesRun,         \* of those, the calls that ran the pipeline
    timestamp, deltaTime, velocity,
    lastCall,          \* the operation called last
    lastValue,         \* its argument, 0 when it takes none
    firstPrevious      \* lastReadings as the first settled frame read them

geometry == <<wheelCircumference, wheelBase, gearRatio, rolloverThreshold,
              rightIncrease, leftIncrease>>

vars == <<wheelCircumference, wheelBase, gearRatio, rolloverThreshold,
          rightIncrease, leftIncrease, currentPosition, distance,
          currentReadings, lastReadings, totalDegreesTraveled,
          metersTraveledInFrame, totalMetersTraveled, stablizationAmount,
          deltaDegrees, processCalls, framesRun, timestamp, deltaTime,
          velocity, lastCall, lastValue, firstPrevious>>

-----------------------------------------------------------------------------
(* float arithmetic *)

NaN == 0 - 2 ^ 30

IsNaN(a) == a = NaN

\* a / b rounded to the nearest unit, b # 0
RoundDiv(a, b) ==
    LET n == IF b < 0 THEN 0 - a ELSE a
        d == IF b < 0 THEN 0 - b ELSE b
    IN  IF n >= 0 THEN (2 * n + d) \div (2 * d)
                  ELSE 0 - ((2 * (0 - n) + d) \div (2 * d))

FAdd(a, b) == IF IsNaN(a) \/ IsNaN(b) THEN NaN ELSE a + b

\* product of a value in 1/Scale units (a sine or cosine) and a length
FMul(a, b) == IF IsNaN(a) \/ IsNaN(b) THEN NaN ELSE RoundDiv(a * b, Scale)

\* one Horner step of the Taylor series: 1 - y * t / k, all in 1/Scale
Horner(y, t, k) == Scale - RoundDiv(y * t, k * Scale)

\* cosf, argument and result in 1/Scale, |a| <= 2 * PI
cosf(a) ==
    IF IsNaN(a) THEN NaN
    ELSE LET y  == RoundDiv(a * a, Scale)
             t8 == Horner(y, Scale, 240)
             t7 == Horner(y, t8, 182)
             t6 == Horner(y, t7, 132)
             t5 == Horner(y, t6, 90)
             t4 == Horner(y, t5, 56)
             t3 == Horner(y, t4, 30)
             t2 == Horner(y, t3, 12)
         IN  Horner(y, t2, 2)

\* sinf, argument and result in 1/Scale, |a| <= 2 * PI
sinf(a) ==
    IF IsNaN(a) THEN NaN
    ELSE LET y  == RoundDiv(a * a, Scale)
             t7 == Horner(y, Scale, 210)
             t6 == Horner(y, t7, 156)
             t5 == Horner(y, t6, 110)
             t4 == Horner(y, t5, 72)
             t3 == Horner(y, t4, 42)
             t2 == Horner(y, t3, 20)
             t1 == Horner(y, t2, 6)
         IN  RoundDiv(a * t1, Scale)

\* asinf at the ratios the geometries produce (quarters), in 1/Scale:
\* asin(0.25) = 0.25268, asin(0.5) = 0.52360, asin(0.75) = 0.84806,
\* asin(1) = 1.57080; NaN outside [-1, 1].
asinfTable(r) ==
    CASE r = 0     -> 0
      [] r = 2500  -> 2527
      [] r = 5000  -> 5236
      [] r = 7500  -> 8481
      [] r = 10000 -> 15708

asinf(r) ==
    IF IsNaN(r) THEN NaN
    ELSE IF r > Scale \/ r < 0 - Scale THEN NaN
    ELSE IF r < 0 THEN 0 - asinfTable(0 - r)
    ELSE asinfTable(r)

-----------------------------------------------------------------------------
(* the processor *)

ZeroPosition == [x |-> 0, y |-> 0, theta |-> 0]
ZeroDistance == [frameDistance |-> 0, totalDistance |-> 0]
ZeroMap == [m \in Motor |-> 0]
ZeroVelocity == [linearX |-> 0, angularZ |-> 0]

\* the name of a call of updateCurrentValue
UpdateCall(motor) ==
    IF motor = "LEFT" THEN "updateCurrentValue(LEFT)"
                      ELSE "updateCurrentValue(RIGHT)"

Construct(g) ==
    /\ wheelCircumference = g.wheelCircumference
    /\ wheelBase = g.wheelBase
    /\ gearRatio = g.gearRatio
    /\ rolloverThreshold = g.rolloverThreshold
    /\ rightIncrease = g.rightIncrease
    /\ leftIncrease = g.leftIncrease
    /\ currentPosition = ZeroPosition
    /\ distance = ZeroDistance
    /\ currentReadings = ZeroMap
    /\ lastReadings = ZeroMap
    /\ totalDegreesTraveled = ZeroMap
    /\ metersTraveledInFrame = ZeroMap
    /\ totalMetersTraveled = ZeroMap
    /\ stablizationAmount = StablizationAmountInit
    /\ deltaDegrees = ZeroMap
    /\ processCalls = 0
    /\ framesRun = 0
    /\ timestamp = 0
    /\ deltaTime = 0
    /\ velocity = ZeroVelocity
    /\ lastCall = "construct"
    /\ lastValue = 0
    /\ firstPrevious = ZeroMap

Init == \E g \in Geometries : Construct(g)

\* a faulty variant: the current reading stored without the shift to last
updateCurrentValueNoShift(value, motor) ==
    /\ currentReadings' = [currentReadings EXCEPT ![motor] = value]
    /\ lastCall' = UpdateCall(motor)
    /\ lastValue' = value
    /\ UNCHANGED <<geometry, currentPosition, distance, lastReadings,
                   totalDegreesTraveled, metersTraveledInFrame,
                   totalMetersTraveled, stablizationAmount, deltaDegrees,
                   processCalls, framesRun, timestamp, deltaTime, velocity,
                   firstPrevious>>

updateCurrentValue(value, motor) ==
    /\ lastReadings' = [lastReadings EXCEPT ![motor] = currentReadings[motor]]
    /\ currentReadings' = [currentReadings EXCEPT ![motor] = value]
    /\ lastCall' = UpdateCall(motor)
    /\ lastValue' = value
    /\ UNCHANGED <<geometry, currentPosition, distance, totalDegreesTraveled,
                   metersTraveledInFrame, totalMetersTraveled,
                   stablizationAmount, deltaDegrees, processCalls, framesRun,
                   timestamp, deltaTime, velocity, firstPrevious>>

\* a faulty variant: no delta for a pair of readings already processed
calculateDeltaDegreesStale(currentDegreeReading, lastDegreeReading) ==
    LET currentPreviousDelta == currentDegreeReading - lastDegreeReading
    IN  IF lastCall = "processData"
          THEN 0
        ELSE IF currentPreviousDelta > rolloverThreshold
          THEN 0 - (360 - currentPreviousDelta)
        ELSE IF currentPreviousDelta < 0 - rolloverThreshold
          THEN 360 + currentPreviousDelta
        ELSE currentPreviousDelta

\* a faulty variant: a rollover frame's delta thrown away
calculateDeltaDegreesDropped(currentDegreeReading, lastDegreeReading) ==
    LET currentPreviousDelta == currentDegreeReading - lastDegreeReading
    IN  IF currentPreviousDelta > rolloverThreshold
          THEN 0
        ELSE IF currentPreviousDelta < 0 - rolloverThreshold
          THEN 0
        ELSE currentPreviousDelta

\* a faulty variant: the half turn as threshold, whatever rolloverThreshold
calculateDeltaDegreesHalfTurn(currentDegreeReading, lastDegreeReading) ==
    LET currentPreviousDelta == currentDegreeReading - lastDegreeReading
    IN  IF currentPreviousDelta > 180
          THEN 0 - (360 - currentPreviousDelta)
        ELSE IF currentPreviousDelta < 0 - 180
          THEN 360 + currentPreviousDelta
        ELSE currentPreviousDelta

\* a faulty variant: the roll-under branch left out
calculateDeltaDegreesNoRollunder(currentDegreeReading, lastDegreeReading) ==
    LET currentPreviousDelta == currentDegreeReading - lastDegreeReading
    IN  IF currentPreviousDelta > rolloverThreshold
          THEN 0 - (360 - currentPreviousDelta)
        ELSE currentPreviousDelta

\* a faulty variant: the rollover comparisons made inclusive
calculateDeltaDegreesInclusive(currentDegreeReading, lastDegreeReading) ==
    LET currentPreviousDelta == currentDegreeReading - lastDegreeReading
    IN  IF currentPreviousDelta >= rolloverThreshold
          THEN 0 - (360 - currentPreviousDelta)
        ELSE IF currentPreviousDelta <= 0 - rolloverThreshold
          THEN 360 + currentPreviousDelta
        ELSE currentPreviousDelta

calculateDeltaDegrees(currentDegreeReading, lastDegreeReading) ==
    LET currentPreviousDelta == currentDegreeReading - lastDegreeReading
    IN  IF currentPreviousDelta > rolloverThreshold
          THEN 0 - (360 - currentPreviousDelta)
        ELSE IF currentPreviousDelta < 0 - rolloverThreshold
          THEN 360 + currentPreviousDelta
        ELSE currentPreviousDelta

\* a faulty variant: the total assigned (=) instead of accumulated (+=)
calculateDegreesTraveledInFrameAssign(motor, delta) ==
    delta

\* totalDegreesTraveled[motor] after the call, given the frame's deltaDegrees
calculateDegreesTraveledInFrame(motor, delta) ==
    totalDegreesTraveled[motor] + delta

\* metersTraveled of the call; totalDegrees is getTotalDegreesTraveled(motor)
\* read after calculateDegreesTraveledInFrame(motor)
calculateMetersMotorTraveledInFrame(motor, totalDegrees) ==
    LET flipLeft  == IF ~leftIncrease /\ motor = "LEFT"
                       THEN 0 - totalDegrees ELSE totalDegrees
        flipRight == IF ~rightIncrease /\ motor = "RIGHT"
                       THEN 0 - flipLeft ELSE flipLeft
    IN  RoundDiv(flipRight * wheelCircumference, THREE_SIXTY * gearRatio)

\* the Distance after the call, given the new metersTraveledInFrame
calculateFrameDistance(meters) ==
    LET frame == RoundDiv(meters["RIGHT"] + meters["LEFT"], 2)
    IN  [frameDistance |-> frame,
         totalDistance |-> distance.totalDistance + frame]

\* the local angle of calculateTheta
thetaAngle(meters) ==
    LET difference == meters["RIGHT"] - meters["LEFT"]
    IN  asinf(RoundDiv(difference * Scale, wheelBase))

\* one correction by 2 * PI; both comparisons are false on NaN
wrapTheta(t) ==
    IF IsNaN(t) THEN NaN
    ELSE IF t > PI THEN t - 2 * PI
    ELSE IF t < 0 - PI THEN t + 2 * PI
    ELSE t

\* currentPosition.theta after the call
calculateTheta(meters) ==
    wrapTheta(FAdd(currentPosition.theta, thetaAngle(meters)))

\* the Position after the call, from Position pos and Distance dist
calculateDistanceMovedX(pos, dist) ==
    LET distanceMoved == FMul(cosf(pos.theta), dist.frameDistance)
    IN  [pos EXCEPT !.x = FAdd(pos.x, distanceMoved)]

calculateDistanceMovedY(pos, dist) ==
    LET distanceMoved == FMul(sinf(pos.theta), dist.frameDistance)
    IN  [pos EXCEPT !.x = FAdd(pos.x, distanceMoved)]

\* a faulty variant: no stabilization gate
settledAlways == TRUE

\* a faulty variant: the countdown compared with 1, one frame short
settledOneShort == ~(stablizationAmount > 1)

\* the value settled() returns; its decrement is part of processData
settled == ~(stablizationAmount > 0)

\* processData() of odometry.cpp; it has no velocity to write
processData ==
    /\ processCalls < MaxCalls
    /\ processCalls' = processCalls + 1
    /\ lastCall' = "processData"
    /\ lastValue' = 0
    /\ IF settled
         THEN LET delta  == [m \in Motor |->
                               calculateDeltaDegrees(currentReadings[m],
                                                     lastReadings[m])]
                  total  == [m \in Motor |->
                               calculateDegreesTraveledInFrame(m, delta[m])]
                  meters == [m \in Motor |->
                               calculateMetersMotorTraveledInFrame(m, total[m])]
                  dist   == calculateFrameDistance(meters)
                  turned == [currentPosition EXCEPT
                               !.theta = calculateTheta(meters)]
                  movedX == calculateDistanceMovedX(turned, dist)
                  movedY == calculateDistanceMovedY(movedX, dist)
              IN  /\ deltaDegrees' = delta
                  /\ totalDegreesTraveled' = total
                  /\ metersTraveledInFrame' = meters
                  /\ totalMetersTraveled' =
                        [m \in Motor |-> totalMetersTraveled[m] + meters[m]]
                  /\ distance' = dist
                  /\ currentPosition' = movedY
                  /\ framesRun' = framesRun + 1
                  /\ UNCHANGED stablizationAmount
         ELSE /\ stablizationAmount' = stablizationAmount - 1
              /\ UNCHANGED <<currentPosition, distance, totalDegreesTraveled,
                             metersTraveledInFrame, totalMetersTraveled,
                             deltaDegrees, framesRun>>
    /\ UNCHANGED <<geometry, currentReadings, lastReadings, timestamp,
                   deltaTime>>

\* a faulty variant: everything zeroed, the stabilization gate left as it is
resetKeepsGate ==
    /\ currentPosition' = ZeroPosition
    /\ distance' = ZeroDistance
    /\ currentReadings' = ZeroMap
    /\ lastReadings' = ZeroMap
    /\ totalDegreesTraveled' = ZeroMap
    /\ metersTraveledInFrame' = ZeroMap
    /\ totalMetersTraveled' = ZeroMap
    /\ deltaDegrees' = ZeroMap
    /\ processCalls' = 0
    /\ framesRun' = 0
    /\ timestamp' = 0
    /\ deltaTime' = 0
    /\ velocity' = ZeroVelocity
    /\ lastCall' = "reset"
    /\ lastValue' = 0
    /\ firstPrevious' = ZeroMap
    /\ UNCHANGED <<geometry, stablizationAmount>>

\* reset(): every field back to its value after construction, same geometry
reset ==
    /\ currentPosition' = ZeroPosition
    /\ distance' = ZeroDistance
    /\ currentReadings' = ZeroMap
    /\ lastReadings' = ZeroMap
    /\ totalDegreesTraveled' = ZeroMap
    /\ metersTraveledInFrame' = ZeroMap
    /\ totalMetersTraveled' = ZeroMap
    /\ stablizationAmount' = StablizationAmountInit
    /\ deltaDegrees' = ZeroMap
    /\ processCalls' = 0
    /\ framesRun' = 0
    /\ timestamp' = 0
    /\ deltaTime' = 0
    /\ velocity' = ZeroVelocity
    /\ lastCall' = "reset"
    /\ lastValue' = 0
    /\ firstPrevious' = ZeroMap
    /\ UNCHANGED geometry

Next ==
    \/ \E m \in Motor, value \in Readings : updateCurrentValue(value, m)
    \/ processData /\ UNCHANGED <<velocity, firstPrevious>>
    \/ reset

Spec == Init /\ [][Next]_vars

-----------------------------------------------------------------------------
(* vocabulary of the properties *)

\* a processData call that ran the pipeline
SettledFrame == framesRun' = framesRun + 1

\* the angle delta as specified: raw = current - previous
AngleDelta(raw, threshold) ==
    IF raw > threshold THEN raw - 360
    ELSE IF raw < 0 - threshold THEN raw + 360
    ELSE raw

\* -1 for a motor whose forward-increasing flag is false, +1 otherwise
DirectionSign(m) ==
    IF (m = "LEFT" /\ ~leftIncrease) \/ (m = "RIGHT" /\ ~rightIncrease)
      THEN 0 - 1 ELSE 1

\* degrees / 360 / gearRatio * wheelCircumference
DegreesToMeters(degrees) ==
    RoundDiv(degrees * wheelCircumference, 360 * gearRatio)

Abs(a) == IF a < 0 THEN 0 - a ELSE a

\* equal up to the rounding of the fixed-point arithmetic
Near(a, b) == ~IsNaN(a) /\ ~IsNaN(b) /\ Abs(a - b) <= 2

-----------------------------------------------------------------------------
\* C1: exactly the first 3 processData calls after construction or reset
\* leave position and distance at zero, whatever readings were supplied; the
\* 4th call is the first that runs the pipeline (and every later one runs it).
C1_Stabilization ==
    /\ processCalls <= 3 =>
          /\ framesRun = 0
          /\ currentPosition = [x |-> 0, y |-> 0, theta |-> 0]
          /\ distance = [frameDistance |-> 0, totalDistance |-> 0]
    /\ processCalls > 3 => framesRun = processCalls - 3

\* the 4th call ran the pipeline and moved the position
C1_Witness ==
    processCalls = 4 /\ framesRun = 1 /\ currentPosition.x # 0

\* C2: the angle delta of a frame, with raw = current - previous, is
\* raw - 360 when raw > threshold, raw + 360 when raw < -threshold and raw
\* otherwise; raw = threshold and raw = -threshold are returned unchanged.
C2_AngleDelta ==
    [][SettledFrame =>
         \A m \in Motor :
            deltaDegrees'[m] =
               AngleDelta(currentReadings[m] - lastReadings[m],
                          rolloverThreshold)]_vars

\* a frame that wrapped one motor (raw 240 above the threshold) and left the
\* other at raw = -threshold
C2_Witness ==
    /\ framesRun >= 1
    /\ currentReadings["RIGHT"] - lastReadings["RIGHT"] = 240
    /\ deltaDegrees["RIGHT"] = 0 - 120
    /\ currentReadings["LEFT"] - lastReadings["LEFT"] = 0 - rolloverThreshold
    /\ deltaDegrees["LEFT"] = 0 - rolloverThreshold

\* C3: each settled frame adds that frame's rollover-corrected angle delta of
\* the motor's own readings to totalDegreesTraveled[motor]; nothing but a
\* settled frame (or a reset) changes the totals, so each total is the sum of
\* that motor's per-frame deltas.
C3_TotalDegrees ==
    [][/\ SettledFrame =>
            \A m \in Motor :
               totalDegreesTraveled'[m] =
                  totalDegreesTraveled[m]
                  + AngleDelta(currentReadings[m] - lastReadings[m],
                               rolloverThreshold)
       /\ (~SettledFrame /\ processCalls' >= processCalls) =>
            totalDegreesTraveled' = totalDegreesTraveled]_vars

\* two settled frames accumulated, the two motors differently
C3_Witness ==
    /\ framesRun = 2
    /\ totalDegreesTraveled["RIGHT"] = 240
    /\ totalDegreesTraveled["LEFT"] = 0 - 120

\* C4: in every settled frame metersTraveledInFrame[motor] is computed from
\* that frame's angle delta only:
\* sign * delta / 360 / gearRatio * wheelCircumference.
C4_MetersFromFrameDelta ==
    [][SettledFrame =>
         \A m \in Motor :
            metersTraveledInFrame'[m] =
               DegreesToMeters(DirectionSign(m) * deltaDegrees'[m])]_vars

\* C5: totalMetersTraveled[motor] equals
\* sign * totalDegreesTraveled[motor] / 360 / gearRatio * wheelCircumference.
C5_TotalMeters ==
    \A m \in Motor :
       totalMetersTraveled[m] =
          DegreesToMeters(DirectionSign(m) * totalDegreesTraveled[m])

\* C6: in every settled frame the heading change added to theta is exactly
\* (rightMeters - leftMeters) / wheelBase.
C6_LinearHeadingChange ==
    [][SettledFrame =>
         currentPosition'.theta =
            wrapTheta(FAdd(currentPosition.theta,
                           RoundDiv((metersTraveledInFrame'["RIGHT"]
                                     - metersTraveledInFrame'["LEFT"]) * Scale,
                                    wheelBase)))]_vars

\* the displacement of the two regimes, from the frame's heading change
RegimeMove(prevTheta, newTheta, deltaTheta, frameDistance) ==
    IF Abs(deltaTheta) < Scale \div 100
      THEN LET midTheta == newTheta - RoundDiv(deltaTheta, 2)
           IN  [dx |-> FMul(cosf(midTheta), frameDistance),
                dy |-> FMul(sinf(midTheta), frameDistance)]
      ELSE [dx |-> RoundDiv(frameDistance * (sinf(newTheta) - sinf(prevTheta)),
                            deltaTheta),
            dy |-> RoundDiv(frameDistance * (cosf(prevTheta) - cosf(newTheta)),
                            deltaTheta)]

\* C7: in every settled frame the position moves by frameDistance along the
\* midpoint heading theta_new - deltaTheta/2 when |deltaTheta| < 0.01, and
\* by the exact arc of radius frameDistance / deltaTheta between prevTheta
\* and theta_new when |deltaTheta| >= 0.01.
C7_PositionRegimes ==
    [][SettledFrame =>
         LET deltaTheta == thetaAngle(metersTraveledInFrame')
         IN  IF \/ IsNaN(deltaTheta) \/ IsNaN(currentPosition.theta)
                \/ IsNaN(currentPosition.x)
               THEN FALSE
               ELSE LET move == RegimeMove(currentPosition.theta,
                                           currentPosition'.theta,
                                           deltaTheta,
                                           distance'.frameDistance)
                    IN  /\ Near(currentPosition'.x, currentPosition.x + move.dx)
                        /\ Near(currentPosition'.y, currentPosition.y + move.dy)
      ]_vars

\* C8: in a settled frame the forward displacement frameDistance * cos(theta)
\* is added to x only and the lateral displacement frameDistance * sin(theta)
\* is added to y only.
C8_AxesSeparate ==
    [][SettledFrame =>
         IF IsNaN(currentPosition'.theta) \/ IsNaN(currentPosition.x)
           THEN FALSE
           ELSE /\ currentPosition'.x =
                      currentPosition.x
                      + FMul(cosf(currentPosition'.theta),
                             distance'.frameDistance)
                /\ currentPosition'.y =
                      currentPosition.y
                      + FMul(sinf(currentPosition'.theta),
                             distance'.frameDistance)]_vars

\* C9: in every reachable state theta lies in (-pi, pi].
C9_ThetaRange ==
    /\ ~IsNaN(currentPosition.theta)
    /\ currentPosition.theta > 0 - PI
    /\ currentPosition.theta <= PI

\* the state of a processor all of whose settled frames were straight:
\* equal direction-corrected travel, theta = y = 0, x = the net wheel travel
StraightSoFar ==
    /\ DirectionSign("LEFT") * totalDegreesTraveled["LEFT"]
          = DirectionSign("RIGHT") * totalDegreesTraveled["RIGHT"]
    /\ currentPosition.theta = 0
    /\ currentPosition.y = 0
    /\ currentPosition.x =
          DegreesToMeters(DirectionSign("RIGHT") * totalDegreesTraveled["RIGHT"])

\* C10: while every settled frame moves both motors by the same
\* direction-corrected distance, theta and y stay 0 and x equals the net wheel
\* travel (wheelCircumference / gearRatio after a net 360 degrees).
C10_StraightLine ==
    [][(/\ SettledFrame
        /\ StraightSoFar
        /\ DirectionSign("LEFT") * deltaDegrees'["LEFT"]
              = DirectionSign("RIGHT") * deltaDegrees'["RIGHT"])
       => StraightSoFar']_vars

\* C11: a call of updateCurrentValue for a motor makes that motor's former
\* current reading its previous reading and the value passed its current
\* reading, and changes nothing else: the other motor's readings, both totals
\* in degrees and metres, the pose, the distance and the stabilization
\* counter are as before.
C11_UpdateReading ==
    [][\A m \in Motor :
          lastCall' = UpdateCall(m) =>
             /\ lastReadings'[m] = currentReadings[m]
             /\ currentReadings'[m] = lastValue'
             /\ \A o \in Motor \ {m} :
                   /\ lastReadings'[o] = lastReadings[o]
                   /\ currentReadings'[o] = currentReadings[o]
             /\ UNCHANGED <<totalDegreesTraveled, metersTraveledInFrame,
                            totalMetersTraveled, currentPosition, distance,
                            stablizationAmount, geometry>>]_vars

\* a reading of 240 pushed over 120 on the right motor of a settled processor
\* whose totals are no longer zero
C11_Witness ==
    /\ lastCall = UpdateCall("RIGHT")
    /\ lastValue = 240
    /\ currentReadings["RIGHT"] = 240
    /\ lastReadings["RIGHT"] = 120
    /\ currentReadings["LEFT"] = 120
    /\ stablizationAmount = 0
    /\ totalDegreesTraveled["RIGHT"] # 0

\* ------------------------------------------------------------------------
\* The angle delta over a fine grid of readings and several thresholds

\* encoder readings every 30 degrees of [0, 360)
FineReadings == {30 * k : k \in 0..11}

\* rollover thresholds of (0, 180), some of them differences of two readings
Thresholds == {90, 100, 150}

DeltaGeometries ==
    {[wheelCircumference |-> 1200, wheelBase |-> 400, gearRatio |-> 2,
      rolloverThreshold |-> t, rightIncrease |-> TRUE, leftIncrease |-> FALSE] :
        t \in Thresholds}

\* the cap on |totalDegreesTraveled|, which the code lets grow without bound
MaxTotalDegrees == 540

InitDelta == \E g \in DeltaGeometries : Construct(g)

\* Tester::callDegreeCalculation(): calculateDegreesTraveledInFrame for LEFT
\* and RIGHT, nothing else of the pipeline
callDegreeCalculation ==
    LET delta == [m \in Motor |->
                    calculateDeltaDegrees(currentReadings[m], lastReadings[m])]
        total == [m \in Motor |->
                    calculateDegreesTraveledInFrame(m, delta[m])]
    IN  /\ \A m \in Motor : total[m] \in (0 - MaxTotalDegrees)..MaxTotalDegrees
        /\ deltaDegrees' = delta
        /\ totalDegreesTraveled' = total
        /\ lastCall' = "callDegreeCalculation"
        /\ lastValue' = 0
        /\ UNCHANGED <<geometry, currentPosition, distance, currentReadings,
                       lastReadings, metersTraveledInFrame,
                       totalMetersTraveled, stablizationAmount, processCalls,
                       framesRun, timestamp, deltaTime, velocity,
                       firstPrevious>>

NextDelta ==
    \/ \E value \in FineReadings : updateCurrentValue(value, "RIGHT")
    \/ callDegreeCalculation

SpecDelta == InitDelta /\ [][NextDelta]_vars

\* the reading an encoder shows after travelling d degrees from reading last
ReadingAfter(last, d) == (last + d) % THREE_SIXTY

\* travel d from reading last passes through 0/360
Wraps(last, d) == last + d < 0 \/ last + d >= THREE_SIXTY

\* C12: with readings in [0, 360) and a rolloverThreshold in (0, 180), for
\* every signed travel d with |d| <= rolloverThreshold that takes a motor's
\* previous reading to its current one, wrapping through 0/360 or not, the
\* angle delta computed for that motor is d.
C12_DeltaWithinThreshold ==
    lastCall = "callDegreeCalculation" =>
       \A m \in Motor :
          \A d \in (0 - rolloverThreshold)..rolloverThreshold :
             ReadingAfter(lastReadings[m], d) = currentReadings[m] =>
                deltaDegrees[m] = d

\* a travel of +60 that wraps, from 330 to 30, with threshold 90
C12_Witness ==
    /\ lastCall = "callDegreeCalculation"
    /\ rolloverThreshold = 90
    /\ lastReadings["RIGHT"] = 330
    /\ currentReadings["RIGHT"] = 30
    /\ Wraps(330, 60)
    /\ deltaDegrees["RIGHT"] = 60

\* calculateDeltaDegrees misreads a travel d from reading last: an unwrapped
\* one whose raw difference passes the threshold, or a wrapped one whose raw
\* difference does not
Misclassified(last, d) ==
    ~(IF Wraps(last, d) THEN Abs(d) < THREE_SIXTY - rolloverThreshold
                        ELSE Abs(d) <= rolloverThreshold)

\* C18 as stated: for every signed travel d with
\* |d| <= 360 - rolloverThreshold that takes a motor's previous reading to its
\* current one, the angle delta computed for that motor is d.
C18_DeltaWithinComplement ==
    lastCall = "callDegreeCalculation" =>
       \A m \in Motor :
          \A d \in (rolloverThreshold - THREE_SIXTY)
                      ..(THREE_SIXTY - rolloverThreshold) :
             ReadingAfter(lastReadings[m], d) = currentReadings[m] =>
                deltaDegrees[m] = d

\* C18 amended: a travel d that does not wrap is computed as d whenever
\* |d| <= rolloverThreshold, and a travel d that wraps once through 0/360 is
\* computed as d whenever |d| < 360 - rolloverThreshold; every other travel
\* of less than a turn is computed as something else.
C18_Amended ==
    lastCall = "callDegreeCalculation" =>
       \A m \in Motor :
          \A d \in (1 - THREE_SIXTY)..(THREE_SIXTY - 1) :
             ReadingAfter(lastReadings[m], d) = currentReadings[m] =>
                (deltaDegrees[m] = d <=> ~Misclassified(lastReadings[m], d))

\* a travel of +120 that wraps, from 300 to 60, past the threshold of 90
C18_Witness ==
    /\ lastCall = "callDegreeCalculation"
    /\ rolloverThreshold = 90
    /\ lastReadings["RIGHT"] = 300
    /\ currentReadings["RIGHT"] = 60
    /\ Wraps(300, 120)
    /\ ~Misclassified(300, 120)
    /\ deltaDegrees["RIGHT"] = 120

\* ------------------------------------------------------------------------
\* Timestamps and velocity

\* uint16_t timestamp: the counter wraps at 2^16
TWO_16 == 65536

\* timestamps a caller supplies, in milliseconds
Timestamps == {500, 65000}

\* encoder readings supplied where time is explored
TimeReadings == {0, 120}

TimeGeometry ==
    [wheelCircumference |-> 1200, wheelBase |-> 400, gearRatio |-> 2,
     rolloverThreshold |-> 120, rightIncrease |-> TRUE, leftIncrease |-> FALSE]

InitTime == Construct(TimeGeometry)

\* a faulty variant: the plain difference, negative when the counter wrapped
updateTimestampPlain(newTimestamp) ==
    /\ deltaTime' = newTimestamp - timestamp
    /\ timestamp' = newTimestamp
    /\ lastCall' = "updateTimestamp"
    /\ lastValue' = newTimestamp
    /\ UNCHANGED <<geometry, currentPosition, distance, currentReadings,
                   lastReadings, totalDegreesTraveled, metersTraveledInFrame,
                   totalMetersTraveled, stablizationAmount, deltaDegrees,
                   processCalls, framesRun, velocity, firstPrevious>>

\* updateTimestamp(newTimestamp): the 16-bit difference to the stored
\* timestamp becomes deltaTime, newTimestamp the stored timestamp
updateTimestamp(newTimestamp) ==
    /\ deltaTime' = (newTimestamp - timestamp) % TWO_16
    /\ timestamp' = newTimestamp
    /\ lastCall' = "updateTimestamp"
    /\ lastValue' = newTimestamp
    /\ UNCHANGED <<geometry, currentPosition, distance, currentReadings,
                   lastReadings, totalDegreesTraveled, metersTraveledInFrame,
                   totalMetersTraveled, stablizationAmount, deltaDegrees,
                   processCalls, framesRun, velocity, firstPrevious>>

\* a / (millis / 1000.0f)
PerSecond(a, millis) ==
    IF IsNaN(a) THEN NaN ELSE RoundDiv(a * 1000, millis)

\* a faulty variant: deltaTime taken as seconds
calculateVelocityNoScale(frameDistance, deltaTheta) ==
    IF deltaTime <= 0 THEN ZeroVelocity
    ELSE [linearX  |-> PerSecond(frameDistance, 1000 * deltaTime),
          angularZ |-> PerSecond(deltaTheta, 1000 * deltaTime)]

\* the Velocity of a frame that moved frameDistance and turned deltaTheta
calculateVelocity(frameDistance, deltaTheta) ==
    IF deltaTime <= 0 THEN ZeroVelocity
    ELSE [linearX  |-> PerSecond(frameDistance, deltaTime),
          angularZ |-> PerSecond(deltaTheta, deltaTime)]

\* processData() of the processor that keeps a velocity: the pipeline of
\* odometry.cpp with the velocity of the frame, nothing when not settled
processDataWithVelocity ==
    /\ processData
    /\ velocity' = IF settled
                     THEN calculateVelocity(distance'.frameDistance,
                                            thetaAngle(metersTraveledInFrame'))
                     ELSE velocity
    /\ UNCHANGED firstPrevious

NextTime ==
    \/ \E m \in Motor, value \in TimeReadings : updateCurrentValue(value, m)
    \/ \E t \in Timestamps : updateTimestamp(t)
    \/ processDataWithVelocity
    \/ reset

SpecTime == InitTime /\ [][NextTime]_vars

\* C13: a settled processData leaves velocity.linearX = frameDistance /
\* (deltaTime / 1000) and velocity.angularZ = the frame's heading change /
\* (deltaTime / 1000) when deltaTime > 0, and leaves both 0 when
\* deltaTime <= 0, whatever the distance and the angle; the heading change is
\* the angle the frame adds to theta.
C13_Velocity ==
    [][lastCall' = "processData" /\ stablizationAmount = 0 =>
          LET headingChange == thetaAngle(metersTraveledInFrame')
          IN  /\ currentPosition'.theta =
                    wrapTheta(FAdd(currentPosition.theta, headingChange))
              /\ deltaTime' > 0 =>
                    /\ velocity'.linearX =
                          PerSecond(distance'.frameDistance, deltaTime')
                    /\ velocity'.angularZ =
                          PerSecond(headingChange, deltaTime')
              /\ deltaTime' <= 0 =>
                    /\ velocity'.linearX = 0
                    /\ velocity'.angularZ = 0]_vars

\* half a second after the previous frame, a frame that moved and turned:
\* the velocities are twice the frame's distance and angle
C13_Witness ==
    /\ lastCall = "processData"
    /\ framesRun >= 1
    /\ deltaTime = 500
    /\ distance.frameDistance # 0
    /\ velocity.linearX = 2 * distance.frameDistance
    /\ ~IsNaN(velocity.angularZ)
    /\ velocity.angularZ = 2 * thetaAngle(metersTraveledInFrame)
    /\ velocity.angularZ # 0

\* C14: updateTimestamp(t) leaves deltaTime = (t - previous timestamp) mod
\* 2^16 and t as the timestamp; when t is smaller than the previous timestamp
\* (the counter wrapped once) deltaTime is the positive count
\* t + 2^16 - previous.
C14_DeltaTime ==
    [][lastCall' = "updateTimestamp" =>
          /\ timestamp' = lastValue'
          /\ deltaTime' = (lastValue' - timestamp) % TWO_16
          /\ lastValue' < timestamp =>
                /\ deltaTime' > 0
                /\ deltaTime' = lastValue' + TWO_16 - timestamp]_vars

\* 500 pushed after 65000 on a settled processor: 1036 elapsed
C14_Witness ==
    /\ lastCall = "updateTimestamp"
    /\ lastValue = 500
    /\ timestamp = 500
    /\ deltaTime = 1036
    /\ stablizationAmount = 0

\* C15: reset(), from whatever state, leaves every accessor at the value it
\* has after construction with the same geometry and the stabilization
\* counter at 3; and through the first 3 processData calls after construction
\* or reset the counter counts down while pose, distance and velocity stay
\* zero.
C15_Reset ==
    /\ [][lastCall' = "reset" =>
             /\ currentPosition' = ZeroPosition
             /\ distance' = ZeroDistance
             /\ velocity' = ZeroVelocity
             /\ currentReadings' = ZeroMap
             /\ lastReadings' = ZeroMap
             /\ deltaDegrees' = ZeroMap
             /\ totalDegreesTraveled' = ZeroMap
             /\ metersTraveledInFrame' = ZeroMap
             /\ totalMetersTraveled' = ZeroMap
             /\ deltaTime' = 0
             /\ timestamp' = 0
             /\ stablizationAmount' = StablizationAmountInit
             /\ UNCHANGED geometry]_vars
    /\ [](processCalls <= StablizationAmountInit =>
             /\ stablizationAmount = StablizationAmountInit - processCalls
             /\ currentPosition = ZeroPosition
             /\ distance = ZeroDistance
             /\ velocity = ZeroVelocity)

\* the state a reset leaves, the gate armed and timestamp and readings zero
C15_Witness ==
    /\ lastCall = "reset"
    /\ stablizationAmount = StablizationAmountInit
    /\ processCalls = 0
    /\ currentReadings = ZeroMap
    /\ lastReadings = ZeroMap
    /\ totalDegreesTraveled = ZeroMap
    /\ currentPosition = ZeroPosition
    /\ velocity = ZeroVelocity
    /\ timestamp = 0
    /\ deltaTime = 0

\* C16: a processData call made while the stabilization counter is above 0
\* takes exactly one off the counter and leaves the per-motor totals in
\* degrees and metres, the metres of the frame, the stored readings, the pose
\* and the distance as they were; a counter at 0 stays 0 (until a reset), and
\* every processData call made with the counter at 0 runs the pipeline:
\* degrees accumulated from the readings, metres from the degrees, distance
\* from the metres.
C16_Warmup ==
    [][/\ (lastCall' = "processData" /\ stablizationAmount > 0) =>
             /\ stablizationAmount' = stablizationAmount - 1
             /\ UNCHANGED <<totalDegreesTraveled, metersTraveledInFrame,
                            totalMetersTraveled, currentReadings,
                            lastReadings, currentPosition, distance>>
       /\ (stablizationAmount = 0 /\ lastCall' # "reset") =>
             stablizationAmount' = 0
       /\ (lastCall' = "processData" /\ stablizationAmount = 0) =>
             /\ SettledFrame
             /\ \A m \in Motor :
                   /\ totalDegreesTraveled'[m] =
                         totalDegreesTraveled[m]
                         + AngleDelta(currentReadings[m] - lastReadings[m],
                                      rolloverThreshold)
                   /\ totalMetersTraveled'[m] =
                         totalMetersTraveled[m] + metersTraveledInFrame'[m]
             /\ distance'.totalDistance =
                   distance.totalDistance + distance'.frameDistance]_vars

\* the third discarded call, made on readings that changed: nothing computed
C16_Witness ==
    /\ lastCall = "processData"
    /\ processCalls = 3
    /\ stablizationAmount = 0
    /\ currentReadings["RIGHT"] = 240
    /\ lastReadings["RIGHT"] = 120
    /\ totalDegreesTraveled = ZeroMap
    /\ totalMetersTraveled = ZeroMap
    /\ currentPosition = ZeroPosition
    /\ distance = ZeroDistance

\* C17: processData leaves the stored current and previous readings as they
\* are; a processData call that directly follows a settled processData call,
\* no reading pushed in between, computes the same angle delta again and adds
\* it to totalDegreesTraveled again.
C17_StaleReadings ==
    [][lastCall' = "processData" =>
          /\ UNCHANGED <<currentReadings, lastReadings>>
          /\ (lastCall = "processData" /\ framesRun >= 1) =>
                /\ deltaDegrees' = deltaDegrees
                /\ \A m \in Motor :
                      totalDegreesTraveled'[m] =
                         totalDegreesTraveled[m] + deltaDegrees[m]]_vars

\* two settled calls on the same pair (120, 0): 120 degrees counted twice
C17_Witness ==
    /\ lastCall = "processData"
    /\ framesRun = 2
    /\ currentReadings["RIGHT"] = 120
    /\ lastReadings["RIGHT"] = 0
    /\ deltaDegrees["RIGHT"] = 120
    /\ totalDegreesTraveled["RIGHT"] = 240

\* ------------------------------------------------------------------------
\* The per-frame protocol: a reading for each motor, then processData

\* processData() noting the previous readings its first settled frame uses
processDataOfFrame ==
    /\ processData
    /\ firstPrevious' = IF settled /\ framesRun = 0 THEN lastReadings
                                                   ELSE firstPrevious
    /\ UNCHANGED velocity

NextProtocol ==
    \/ /\ lastCall \in {"construct", "processData"}
       /\ \E value \in Readings : updateCurrentValue(value, "LEFT")
    \/ /\ lastCall = UpdateCall("LEFT")
       /\ \E value \in Readings : updateCurrentValue(value, "RIGHT")
    \/ /\ lastCall = UpdateCall("RIGHT")
       /\ processDataOfFrame

SpecProtocol == Init /\ [][NextProtocol]_vars

\* C19: under the per-frame protocol, after every settled frame
\* totalDegreesTraveled of each motor is congruent modulo 360 to its current
\* reading minus the reading that was its previous reading in the first
\* settled frame; and the first settled frame comes after discarded frames,
\* so that previous reading is one the caller pushed, not the default 0.
C19_Telescoping ==
    (lastCall = "processData" /\ framesRun >= 1) =>
       /\ \A m \in Motor :
             (totalDegreesTraveled[m]
                - (currentReadings[m] - firstPrevious[m])) % THREE_SIXTY = 0
       /\ processCalls - framesRun >= 1

\* two settled frames, the right motor 240 -> 0 -> 120 across the rollover:
\* 240 degrees in total, congruent to 120 - 240
C19_Witness ==
    /\ lastCall = "processData"
    /\ framesRun = 2
    /\ firstPrevious["RIGHT"] = 240
    /\ lastReadings["RIGHT"] = 0
    /\ currentReadings["RIGHT"] = 120
    /\ totalDegreesTraveled["RIGHT"] = 240

====
